---- MODULE Spec2Model ----
(***************************************************************************)
(* Model of src/ros2-grafana/src/main.py: ROSTopicHz, the per-topic        *)
(* sliding window of inter-arrival intervals with its ingest callback      *)
(* callback_hz and its snapshot get_hz, run by concurrent threads, and the *)
(* polling loop of _rostopic_hz with its export callback and stop signal.  *)
(*                                                                         *)
(* Timestamps are nanoseconds, as in the source.  callback_hz runs its     *)
(* body under self.lock; get_hz performs its three early-return checks     *)
(* (lines 145-153) without the lock and takes it only for the computation  *)
(* (lines 155-164).  Every read or write of shared state that another      *)
(* thread can observe is a separate step.  The body of the export callback *)
(* is not part of main.py; it is modelled as sections 4.5 and 5 of the     *)
(* specification describe it (Dispatch, Returned, export_done).            *)
(***************************************************************************)
EXTENDS Integers, Sequences, FiniteSets, TLC

\* ---- bounds of the model ------------------------------------------------
MaxWindow == 2                      \* window_size is drawn from 1..MaxWindow
MaxIngests == 3                     \* messages delivered in one run (Spec)
MaxPolls == 2                       \* get_hz calls finding a non-empty window (Spec)
DeepIngests == 4                    \* messages delivered in one run (SpecOne)
DeepPolls == 3                      \* get_hz calls finding a non-empty window (SpecOne)
WinIngests == 4                     \* messages delivered in one run (SpecWin)
WinPolls == 2                       \* get_hz calls finding a non-empty window (SpecWin)
StatsWindow == 4                    \* window_size of the sessions of SpecStats
StatLimit == 1000                   \* largest |interval| whose squares are computed
LoopIngests == 3                    \* messages delivered in one run (SpecLoop)
StopIngests == 3                    \* messages delivered in one run (SpecStop)

\* ---- program constants --------------------------------------------------
ThrottleNs == 1000000000            \* the 1e9 of get_hz, line 152
NsPerSec == 1000000000              \* the 1e9 of _rostopic_hz, line 207

Topics == {"a", "b"}
Workers == {"w1", "w2"}             \* threads delivering messages (callback_hz)
Pollers == {"p1", "p2"}             \* threads calling get_hz
NoThread == "none"
DefaultTopic == "a"
LoopThread == "p1"                  \* the thread that runs _rostopic_hz
TopicOrder == <<"a", "b">>          \* the order of topic_list

\* values the clock source returns: zero (invalid/reset), two close instants,
\* and an instant one throttle period later
ClockValues == {0, 1, 2, ThrottleNs + 2}

\* outcome of evaluating filter_expr(m) on a message
FilterOutcomes == {"accept", "reject", "raise"}

None == [kind |-> "None"]            \* get_hz returned None
NotCalled == [kind |-> "NotCalled"]  \* the thread has not finished a get_hz call yet

VARIABLES
    topic_list,         \* the topics of the session (_rostopic_hz's topic_list)
    workers,            \* the threads that deliver messages in this run
    pollers,            \* the threads that call get_hz in this run
    ingests_left,       \* messages the run may still pass to or drop at the filter
    polls_left,         \* get_hz calls that may still pass line 145 (-1: any number)
    window_size,        \* self.window_size
    filter_expr,        \* TRUE iff a filter predicate was supplied
    history,            \* TRUE iff the run records the clock readings in `ingested`
    lock,               \* holder of self.lock, or NoThread
    _times,             \* self._times[topic]
    _msg_t0,            \* self._msg_t0[topic]
    _msg_tn,            \* self._msg_tn[topic]
    _last_printed_tn,   \* self._last_printed_tn[topic]
    wpc,                \* position of each worker inside callback_hz
    wtopic,             \* topic argument of the worker's callback
    curr,               \* local curr (curr_rostime.nanoseconds)
    msg_t0,             \* local msg_t0 of callback_hz (line 130)
    ppc,                \* position of each poller inside get_hz
    ptopic,             \* topic argument of the poller's get_hz
    arg,                \* value of get_msg_tn read by the poller (lines 149, 152)
    ret,                \* what the poller's last get_hz returned or raised
    ingested,           \* history: the clock readings taken for each topic, in order
                        \* (recorded in the runs whose properties read it)
    last_report,        \* history: _msg_tn at the topic's latest report, or -1
    fresh,              \* history: since the topic's last reset no get_hz call
                        \* has found it non-empty or armed its throttle
    first,              \* history: this get_hz call is the first to find the
                        \* topic non-empty since its last reset
    update_cb,          \* TRUE iff an export callback was supplied
    lpc,                \* position of the loop of _rostopic_hz ("off": not run)
    ok,                 \* rclpy.ok(): no stop signal so far
    todo,               \* the topics the for loop of line 204 has still to visit
    hz_dict,            \* the batch of the iteration, line 203
    inflight,           \* export tasks dispatched by update_cb and not finished
    logged,             \* the batches whose sink write failed (the log)
    released,           \* owned resources released so far (lines 211-212)
    iter_stats          \* history: topics whose get_hz returned statistics in
                        \* this iteration

chanVars == <<_times, _msg_t0, _msg_tn, _last_printed_tn>>
workerVars == <<wpc, wtopic, curr, msg_t0>>
pollerVars == <<ppc, ptopic, arg, ret>>
histVars == <<ingested, last_report, fresh, first>>
runVars == <<topic_list, workers, pollers, window_size, filter_expr, history>>
loopVars == <<update_cb, lpc, ok, todo, hz_dict, inflight, logged, released, iter_stats>>
coreVars == <<runVars, ingests_left, polls_left, lock, chanVars, workerVars, pollerVars, histVars>>
vars == <<coreVars, loopVars>>

\* ---- helpers ------------------------------------------------------------
\* sum(times), line 158
RECURSIVE Sum(_)
Sum(s) == IF s = <<>> THEN 0 ELSE Head(s) + Sum(Tail(s))

\* faulty variant of Min: the first interval is taken for the smallest
MinHead(s) == Head(s)

\* min(times), line 162
RECURSIVE Min(_)
Min(s) == IF Len(s) = 1 THEN Head(s)
          ELSE LET m == Min(Tail(s)) IN IF Head(s) < m THEN Head(s) ELSE m

\* max(times), line 161
RECURSIVE Max(_)
Max(s) == IF Len(s) = 1 THEN Head(s)
          ELSE LET m == Max(Tail(s)) IN IF Head(s) > m THEN Head(s) ELSE m

Abs(x) == IF x < 0 THEN -x ELSE x

\* ---- construction -------------------------------------------------------
\* ROSTopicHz.__init__: the defaultdicts give every topic -1 / 0 / 0 / [].
Fresh ==
    /\ lock = NoThread
    /\ _times = [t \in Topics |-> <<>>]
    /\ _msg_t0 = [t \in Topics |-> -1]
    /\ _msg_tn = [t \in Topics |-> 0]
    /\ _last_printed_tn = [t \in Topics |-> 0]
    /\ wpc = [w \in Workers |-> "idle"]
    /\ wtopic = [w \in Workers |-> DefaultTopic]
    /\ curr = [w \in Workers |-> 0]
    /\ msg_t0 = [w \in Workers |-> -1]
    /\ ppc = [p \in Pollers |-> "idle"]
    /\ ptopic = [p \in Pollers |-> DefaultTopic]
    /\ arg = [p \in Pollers |-> 0]
    /\ ret = [p \in Pollers |-> NotCalled]
    /\ ingested = [t \in Topics |-> <<>>]
    /\ last_report = [t \in Topics |-> -1]
    /\ fresh = [t \in Topics |-> TRUE]
    /\ first = [p \in Pollers |-> FALSE]

\* hz_dict = {} (line 203); a dict is the set of its <<key, value>> pairs
EmptyBatch == {}

\* the sessions that call get_hz directly do not run the loop of _rostopic_hz
NoLoop ==
    /\ update_cb = FALSE
    /\ lpc = "off"
    /\ ok = TRUE
    /\ todo = <<>>
    /\ hz_dict = EmptyBatch
    /\ inflight = {}
    /\ logged = {}
    /\ released = {}
    /\ iter_stats = {}

\* a session on every topic: concurrent deliveries, and one thread calling
\* get_hz as the loop of _rostopic_hz does (lines 201-205)
Init ==
    /\ topic_list = Topics
    /\ workers = Workers
    /\ pollers = {"p1"}
    /\ ingests_left = MaxIngests
    /\ polls_left = MaxPolls
    /\ window_size \in 1..MaxWindow
    /\ filter_expr \in BOOLEAN
    /\ history = TRUE
    /\ Fresh
    /\ NoLoop

\* a longer session on one topic: one delivering thread, concurrent callers
\* of get_hz
InitOne ==
    /\ topic_list = {DefaultTopic}
    /\ workers = {"w1"}
    /\ pollers = Pollers
    /\ ingests_left = DeepIngests
    /\ polls_left = DeepPolls
    /\ window_size \in 1..MaxWindow
    /\ filter_expr = FALSE
    /\ history = TRUE
    /\ Fresh
    /\ NoLoop

\* a session on one topic that is mostly deliveries
InitWin ==
    /\ topic_list = {DefaultTopic}
    /\ workers = Workers
    /\ pollers = {"p1"}
    /\ ingests_left = WinIngests
    /\ polls_left = WinPolls
    /\ window_size \in 1..MaxWindow
    /\ filter_expr = FALSE
    /\ history = TRUE
    /\ Fresh
    /\ NoLoop

\* intervals of the sessions of SpecStats
SmallDeltas == {90, 100, 110}

\* a session observed in its middle: the topic has had its first message at
\* instant 1, its window holds small intervals, its last message came at
\* `base` plus those intervals (base = 1: nothing else happened; base =
\* ThrottleNs + 1: a longer interval was evicted or cleared before), and
\* get_hz has either never armed the throttle or armed it at instant 1.
\* The history variables start at the observed state.
InitStats ==
    /\ topic_list = {DefaultTopic}
    /\ workers = {"w1"}
    /\ pollers = {"p1"}
    /\ ingests_left = 1
    /\ polls_left = 2
    /\ window_size = StatsWindow
    /\ filter_expr = FALSE
    /\ history = TRUE
    /\ lock = NoThread
    /\ \E n \in 1..StatsWindow : \E ds \in [1..n -> SmallDeltas] :
       \E base \in {1, ThrottleNs + 1} :
          /\ _times = [t \in Topics |-> IF t = DefaultTopic THEN ds ELSE <<>>]
          /\ _msg_t0 = [t \in Topics |-> IF t = DefaultTopic THEN 1 ELSE -1]
          /\ _msg_tn = [t \in Topics |-> IF t = DefaultTopic THEN base + Sum(ds) ELSE 0]
    /\ \E lp \in {0, 1} :
          _last_printed_tn = [t \in Topics |-> IF t = DefaultTopic THEN lp ELSE 0]
    /\ wpc = [w \in Workers |-> "idle"]
    /\ wtopic = [w \in Workers |-> DefaultTopic]
    /\ curr = [w \in Workers |-> 0]
    /\ msg_t0 = [w \in Workers |-> -1]
    /\ ppc = [p \in Pollers |-> "idle"]
    /\ ptopic = [p \in Pollers |-> DefaultTopic]
    /\ arg = [p \in Pollers |-> 0]
    /\ ret = [p \in Pollers |-> NotCalled]
    /\ ingested = [t \in Topics |-> <<>>]
    /\ last_report = [t \in Topics |-> -1]
    /\ fresh = [t \in Topics |-> FALSE]
    /\ first = [p \in Pollers |-> FALSE]
    /\ NoLoop

\* the loop of _rostopic_hz over every topic with an export callback,
\* deliveries by one transport thread, any number of iterations
InitLoop ==
    /\ topic_list = Topics
    /\ workers = {"w1"}
    /\ pollers = {LoopThread}
    /\ ingests_left = LoopIngests
    /\ polls_left = -1
    /\ window_size = MaxWindow
    /\ filter_expr = FALSE
    /\ history = FALSE
    /\ Fresh
    /\ update_cb = TRUE
    /\ lpc = "l201"
    /\ ok = TRUE
    /\ todo = <<>>
    /\ hz_dict = EmptyBatch
    /\ inflight = {}
    /\ logged = {}
    /\ released = {}
    /\ iter_stats = {}

\* the loop of _rostopic_hz over one topic, with or without an export
\* callback
InitStop ==
    /\ topic_list = {DefaultTopic}
    /\ workers = {"w1"}
    /\ pollers = {LoopThread}
    /\ ingests_left = StopIngests
    /\ polls_left = -1
    /\ window_size \in 1..MaxWindow
    /\ filter_expr = FALSE
    /\ history = FALSE
    /\ Fresh
    /\ update_cb \in BOOLEAN
    /\ lpc = "l201"
    /\ ok = TRUE
    /\ todo = <<>>
    /\ hz_dict = EmptyBatch
    /\ inflight = {}
    /\ logged = {}
    /\ released = {}
    /\ iter_stats = {}

\* ---- callback_hz --------------------------------------------------------
\* faulty variant of IsReset: only the first sample resets
IsResetFirstOnly(t0, c) == t0 < 0

\* faulty variant of IsReset: a reading equal to the origin resets too
IsResetOrEqual(t0, c) == t0 < 0 \/ t0 >= c

\* line 132: the reset test (first sample, or time moved before the origin)
IsReset(t0, c) == t0 < 0 \/ t0 > c

\* faulty variant of OverWindow: the eviction starts one element late
OverWindowLate(ts, ws) == Len(ts) > ws + 1

\* line 140: the window is over its size
OverWindow(ts, ws) == Len(ts) > ws

\* faulty variant of PopFirst: the newest interval is dropped, not the oldest
PopLast(ts) == SubSeq(ts, 1, Len(ts) - 1)

\* line 141: times.pop(0)
PopFirst(ts) == Tail(ts)

\* faulty variant of Rejects: the result of the predicate is ignored
RejectsNever(fe, outcome) == FALSE

\* line 117: `self.filter_expr and not self.filter_expr(m)`
Rejects(fe, outcome) == fe /\ outcome = "reject"

\* lines 115-117: the call starts, the filter (if any) is evaluated; an
\* exception of the predicate leaves callback_hz and ends the delivering thread
callback_hz_filter(w, topic, outcome) ==
    /\ wpc[w] = "idle"
    /\ ingests_left > 0
    /\ IF filter_expr /\ outcome = "raise"
         THEN /\ wpc' = [wpc EXCEPT ![w] = "raised"]
              /\ UNCHANGED <<wtopic, ingests_left>>
       ELSE IF Rejects(filter_expr, outcome)
         THEN /\ wpc' = [wpc EXCEPT ![w] = "l118"]
              /\ wtopic' = [wtopic EXCEPT ![w] = topic]
              /\ ingests_left' = ingests_left - 1
       ELSE /\ wpc' = [wpc EXCEPT ![w] = "l120"]
            /\ wtopic' = [wtopic EXCEPT ![w] = topic]
            /\ ingests_left' = ingests_left - 1
    /\ UNCHANGED <<runVars, polls_left, lock, chanVars, curr, msg_t0, pollerVars, histVars>>

\* line 118: the rejected message is dropped, the call returns
callback_hz_reject(w) ==
    /\ wpc[w] = "l118"
    /\ wpc' = [wpc EXCEPT ![w] = "idle"]
    /\ wtopic' = [wtopic EXCEPT ![w] = DefaultTopic]
    /\ UNCHANGED <<runVars, ingests_left, polls_left, lock, chanVars, curr, msg_t0,
                   pollerVars, histVars>>

\* faulty variant of Release: the lock stays with the thread that took it
ReleaseNever(w) == w

\* lines 127 and 141: the with block is left, self.lock is released
Release(w) == NoThread

\* faulty variant of ZeroReading: a zero reading is taken for a timestamp
ZeroReadingNever(c) == FALSE

\* line 123: curr_rostime.nanoseconds == 0
ZeroReading(c) == c = 0

\* lines 120-121: with self.lock; read the clock
callback_hz_acquire(w, now) ==
    /\ wpc[w] = "l120"
    /\ lock = NoThread
    /\ lock' = w
    /\ curr' = [curr EXCEPT ![w] = now]
    /\ ingested' = IF history THEN [ingested EXCEPT ![wtopic[w]] = Append(@, now)]
                            ELSE ingested
    /\ wpc' = [wpc EXCEPT ![w] = "l123"]
    /\ UNCHANGED <<runVars, ingests_left, polls_left, chanVars, wtopic, msg_t0, pollerVars,
                   last_report, fresh, first>>

\* lines 123-127: a zero reading clears a non-empty window and returns
\* lines 129-134: the reset branch sets _msg_t0 and _msg_tn (no other thread
\*                reads _msg_t0, so the two writes are one step)
\* line  137:     otherwise the interval is appended
callback_hz_record(w) ==
    /\ wpc[w] = "l123"
    /\ IF ZeroReading(curr[w])
         THEN /\ IF Len(_times[wtopic[w]]) > 0
                   THEN /\ _times' = [_times EXCEPT ![wtopic[w]] = <<>>]
                        /\ fresh' = [fresh EXCEPT ![wtopic[w]] = TRUE]
                   ELSE UNCHANGED <<_times, fresh>>
              /\ lock' = Release(w)
              /\ wpc' = [wpc EXCEPT ![w] = "idle"]
              /\ wtopic' = [wtopic EXCEPT ![w] = DefaultTopic]
              /\ UNCHANGED <<_msg_t0, _msg_tn, msg_t0>>
       ELSE IF IsReset(_msg_t0[wtopic[w]], curr[w])
         THEN /\ msg_t0' = [msg_t0 EXCEPT ![w] = _msg_t0[wtopic[w]]]
              /\ _msg_t0' = [_msg_t0 EXCEPT ![wtopic[w]] = curr[w]]
              /\ _msg_tn' = [_msg_tn EXCEPT ![wtopic[w]] = curr[w]]
              /\ wpc' = [wpc EXCEPT ![w] = "l135"]
              /\ UNCHANGED <<_times, fresh, lock, wtopic>>
       ELSE /\ msg_t0' = [msg_t0 EXCEPT ![w] = _msg_t0[wtopic[w]]]
            /\ _times' = [_times EXCEPT ![wtopic[w]] = Append(@, curr[w] - _msg_tn[wtopic[w]])]
            /\ wpc' = [wpc EXCEPT ![w] = "l138"]
            /\ UNCHANGED <<_msg_t0, _msg_tn, fresh, lock, wtopic>>
    /\ UNCHANGED <<runVars, ingests_left, polls_left, _last_printed_tn, curr, pollerVars,
                   ingested, last_report, first>>

\* the window after the last write of a branch and lines 140-141
Evicted(ts, ws) == IF OverWindow(ts, ws) THEN PopFirst(ts) ELSE ts

\* line 135 (set_times([]) of the reset branch) or line 138 (set_msg_tn of
\* the append branch), then lines 140-141 and the end of the with block
callback_hz_finish(w) ==
    /\ wpc[w] \in {"l135", "l138"}
    /\ IF wpc[w] = "l135"
         THEN /\ _times' = [_times EXCEPT ![wtopic[w]] = Evicted(<<>>, window_size)]
              /\ fresh' = [fresh EXCEPT ![wtopic[w]] = TRUE]
              /\ UNCHANGED _msg_tn
         ELSE /\ _msg_tn' = [_msg_tn EXCEPT ![wtopic[w]] = curr[w]]
              /\ _times' = [_times EXCEPT ![wtopic[w]] = Evicted(@, window_size)]
              /\ UNCHANGED fresh
    /\ lock' = Release(w)
    /\ wpc' = [wpc EXCEPT ![w] = "idle"]
    /\ wtopic' = [wtopic EXCEPT ![w] = DefaultTopic]
    /\ curr' = [curr EXCEPT ![w] = 0]
    /\ msg_t0' = [msg_t0 EXCEPT ![w] = -1]
    /\ UNCHANGED <<runVars, ingests_left, polls_left, _msg_t0, _last_printed_tn, pollerVars,
                   ingested, last_report, first>>

callback_hz(w) ==
    \/ \E topic \in topic_list, outcome \in FilterOutcomes : callback_hz_filter(w, topic, outcome)
    \/ callback_hz_reject(w)
    \/ \E now \in ClockValues : callback_hz_acquire(w, now)
    \/ callback_hz_record(w)
    \/ callback_hz_finish(w)

\* ---- get_hz -------------------------------------------------------------
\* faulty variant of NoTimes: the emptiness test is lost
NoTimesNever(ts) == FALSE

\* line 145: `not self.get_times(topic)`
NoTimes(ts) == ts = <<>>

\* line 148: the throttle has never been armed
NotPrimed(lp) == lp = 0

\* line 152: msg_tn < last_printed_tn + 1e9, written as a difference so that
\* the sum stays inside the checker's integers
Throttled(tn, lp) == tn - lp < ThrottleNs

\* line 158: mean = sum(times) / n, kept as the fraction <<numerator, denominator>>
Mean(ts) == <<Sum(ts), Len(ts)>>

\* line 159: rate = 1. / mean if mean > 0. else 0, as a fraction
Rate(mean) == IF mean[1] > 0 THEN <<mean[2], mean[1]>> ELSE <<0, 1>>

\* line 160: std_dev = sqrt(sum((x - mean)**2) / n).  Recorded as
\* n^3 * std_dev^2 = sum((n*x - sum)^2), an integer; windows holding an
\* interval beyond StatLimit are recorded as -1 (squares out of range).
RECURSIVE SumSq(_, _, _)
SumSq(ts, n, s) == IF ts = <<>> THEN 0
                   ELSE (n * Head(ts) - s) * (n * Head(ts) - s) + SumSq(Tail(ts), n, s)

StdDev(ts) == IF \A i \in 1..Len(ts) : Abs(ts[i]) <= StatLimit
              THEN SumSq(ts, Len(ts), Sum(ts))
              ELSE -1

\* lines 156-162, 166: the returned tuple (rate, min_delta, max_delta, std_dev, n)
Stats(ts) == [kind |-> "stats",
              rate |-> Rate(Mean(ts)),
              min_delta |-> Min(ts),
              max_delta |-> Max(ts),
              std_dev |-> StdDev(ts),
              n |-> Len(ts)]

\* lines 143-146: the call starts; an empty window returns None
get_hz_times(p, topic) ==
    /\ ppc[p] = "idle"
    /\ IF NoTimes(_times[topic])
         THEN /\ ret' = [ret EXCEPT ![p] = None]
              /\ UNCHANGED <<ppc, ptopic, fresh, first, polls_left>>
         ELSE /\ polls_left # 0
              /\ UNCHANGED ret
              /\ polls_left' = IF polls_left > 0 THEN polls_left - 1 ELSE polls_left
              /\ ppc' = [ppc EXCEPT ![p] = "l148"]
              /\ ptopic' = [ptopic EXCEPT ![p] = topic]
              /\ first' = [first EXCEPT ![p] = fresh[topic]]
              /\ fresh' = [fresh EXCEPT ![topic] = FALSE]
    /\ UNCHANGED <<runVars, ingests_left, lock, chanVars, workerVars, arg, ingested, last_report>>

\* line 148: get_last_printed_tn(topic) == 0
get_hz_primed(p) ==
    /\ ppc[p] = "l148"
    /\ ppc' = [ppc EXCEPT ![p] = IF NotPrimed(_last_printed_tn[ptopic[p]])
                                   THEN "l149" ELSE "l152"]
    /\ UNCHANGED <<runVars, ingests_left, polls_left, lock, chanVars, workerVars,
                   ptopic, arg, ret, histVars>>

\* lines 149 and 152: evaluate get_msg_tn(topic)
get_hz_read_tn(p) ==
    /\ ppc[p] \in {"l149", "l152"}
    /\ arg' = [arg EXCEPT ![p] = _msg_tn[ptopic[p]]]
    /\ ppc' = [ppc EXCEPT ![p] = IF ppc[p] = "l149" THEN "l149w" ELSE "l152c"]
    /\ UNCHANGED <<runVars, ingests_left, polls_left, lock, chanVars, workerVars,
                   ptopic, ret, histVars>>

\* lines 149-150: set_last_printed_tn(<value read>); return None
get_hz_prime(p) ==
    /\ ppc[p] = "l149w"
    /\ _last_printed_tn' = [_last_printed_tn EXCEPT ![ptopic[p]] = arg[p]]
    /\ ppc' = [ppc EXCEPT ![p] = "idle"]
    /\ ptopic' = [ptopic EXCEPT ![p] = DefaultTopic]
    /\ arg' = [arg EXCEPT ![p] = 0]
    /\ first' = [first EXCEPT ![p] = FALSE]
    /\ fresh' = [fresh EXCEPT ![ptopic[p]] = FALSE]
    /\ ret' = [ret EXCEPT ![p] = None]
    /\ UNCHANGED <<runVars, ingests_left, polls_left, lock, _times, _msg_t0, _msg_tn,
                   workerVars, ingested, last_report>>

\* lines 152-153: compare with get_last_printed_tn(topic) + 1e9
get_hz_throttle(p) ==
    /\ ppc[p] = "l152c"
    /\ IF Throttled(arg[p], _last_printed_tn[ptopic[p]])
         THEN /\ ppc' = [ppc EXCEPT ![p] = "idle"]
              /\ ptopic' = [ptopic EXCEPT ![p] = DefaultTopic]
              /\ first' = [first EXCEPT ![p] = FALSE]
              /\ ret' = [ret EXCEPT ![p] = None]
         ELSE /\ ppc' = [ppc EXCEPT ![p] = "l155"]
              /\ UNCHANGED <<ptopic, first, ret>>
    /\ arg' = [arg EXCEPT ![p] = 0]
    /\ UNCHANGED <<runVars, ingests_left, polls_left, lock, chanVars, workerVars,
                   ingested, last_report, fresh>>

\* lines 155-166: with self.lock, compute over the window, record the report
\* and return.  Nothing the block reads is written while the lock is held, so
\* the block is one step.  sum(times) / 0 raises ZeroDivisionError out of
\* get_hz.
get_hz_compute(p) ==
    /\ ppc[p] = "l155"
    /\ lock = NoThread
    /\ IF Len(_times[ptopic[p]]) = 0
         THEN /\ ppc' = [ppc EXCEPT ![p] = "raised"]
              /\ UNCHANGED <<_last_printed_tn, last_report, ret, ptopic>>
         ELSE /\ ret' = [ret EXCEPT ![p] = Stats(_times[ptopic[p]])]
              /\ _last_printed_tn' = [_last_printed_tn EXCEPT ![ptopic[p]] = _msg_tn[ptopic[p]]]
              /\ last_report' = [last_report EXCEPT ![ptopic[p]] = _msg_tn[ptopic[p]]]
              /\ ppc' = [ppc EXCEPT ![p] = "idle"]
              /\ ptopic' = [ptopic EXCEPT ![p] = DefaultTopic]
    /\ first' = [first EXCEPT ![p] = FALSE]
    /\ UNCHANGED <<runVars, ingests_left, polls_left, lock, _times, _msg_t0, _msg_tn,
                   workerVars, arg, ingested, fresh>>

\* lines 148-166: the steps of a call after its first
get_hz_body(p) ==
    \/ get_hz_primed(p)
    \/ get_hz_read_tn(p)
    \/ get_hz_prime(p)
    \/ get_hz_throttle(p)
    \/ get_hz_compute(p)

get_hz(p) ==
    \/ \E topic \in topic_list : get_hz_times(p, topic)
    \/ get_hz_body(p)

Next ==
    \/ \E w \in workers : callback_hz(w) /\ UNCHANGED loopVars
    \/ \E p \in pollers : get_hz(p) /\ UNCHANGED loopVars

\* ---- _rostopic_hz -------------------------------------------------------
\* line 201: while rclpy.ok()
loop_while ==
    /\ lpc = "l201"
    /\ lpc' = IF ok THEN "l202" ELSE "l211"
    /\ UNCHANGED <<coreVars, update_cb, ok, todo, hz_dict, inflight, logged, released,
                   iter_stats>>

\* faulty variant of NewBatch: the dict of the last iteration is used again
KeptBatch(old) == old

\* line 203: hz_dict = {}
NewBatch(old) == EmptyBatch

\* lines 202-204: spin_once returns, hz_dict = {}, the for loop starts
loop_spin_once ==
    /\ lpc = "l202"
    /\ hz_dict' = NewBatch(hz_dict)
    /\ todo' = SelectSeq(TopicOrder, LAMBDA t : t \in topic_list)
    /\ iter_stats' = {}
    /\ lpc' = "l205"
    /\ UNCHANGED <<coreVars, update_cb, ok, inflight, logged, released>>

\* line 205: hz = rt.get_hz(topic), the call starts
loop_get_hz ==
    /\ lpc = "l205"
    /\ todo # <<>>
    /\ get_hz_times(LoopThread, Head(todo))
    /\ lpc' = "l206"
    /\ UNCHANGED <<update_cb, ok, todo, hz_dict, inflight, logged, released, iter_stats>>

\* line 206: `if hz`: None is false, the tuple of five is true
Truthy(hz) == hz.kind = "stats"

\* line 207: hz[0] * 1e9; the product is kept unevaluated
ToHz(rate) == [num |-> rate[1], den |-> rate[2], times |-> NsPerSec]

\* line 207: hz_dict[topic] = value
SetItem(d, k, v) == {kv \in d : kv[1] # k} \cup {<<k, v>>}

\* lines 206-207 and the next turn of the for loop: the call has returned
loop_collect ==
    /\ lpc = "l206"
    /\ ppc[LoopThread] = "idle"
    /\ IF Truthy(ret[LoopThread])
         THEN /\ hz_dict' = SetItem(hz_dict, Head(todo), ToHz(ret[LoopThread].rate))
              /\ iter_stats' = iter_stats \cup {Head(todo)}
         ELSE UNCHANGED <<hz_dict, iter_stats>>
    /\ todo' = Tail(todo)
    /\ lpc' = IF Tail(todo) = <<>> THEN "l208" ELSE "l205"
    /\ UNCHANGED <<coreVars, update_cb, ok, inflight, logged, released>>

\* update_cb(batch): the batch is handed to a unit of concurrent work of its
\* own and the call returns (section 5 of the specification)
Dispatch(tasks, batch) == tasks \cup {batch}

\* faulty variant of Returned: update_cb returns when the batch is written
ReturnedWhenWritten(tasks, batch) == batch \notin tasks

\* update_cb(batch) returns without waiting for the task it dispatched
\* (fire-and-forget, sections 4.5 and 5 of the specification)
Returned(tasks, batch) == TRUE

\* lines 208-209: if update_cb: update_cb(hz_dict) is called
loop_export ==
    /\ lpc = "l208"
    /\ IF update_cb
         THEN /\ inflight' = Dispatch(inflight, hz_dict)
              /\ lpc' = "l209"
         ELSE /\ UNCHANGED inflight
              /\ lpc' = "l201"
    /\ UNCHANGED <<coreVars, update_cb, ok, todo, hz_dict, logged, released, iter_stats>>

\* line 209: update_cb has returned; back to the while
loop_export_return ==
    /\ lpc = "l209"
    /\ Returned(inflight, hz_dict)
    /\ lpc' = "l201"
    /\ UNCHANGED <<coreVars, update_cb, ok, todo, hz_dict, inflight, logged, released,
                   iter_stats>>

\* line 211: node.destroy_node()
loop_destroy_node ==
    /\ lpc = "l211"
    /\ released' = released \cup {"node"}
    /\ lpc' = "l212"
    /\ UNCHANGED <<coreVars, update_cb, ok, todo, hz_dict, inflight, logged, iter_stats>>

\* line 212: rclpy.shutdown(), _rostopic_hz returns
loop_shutdown ==
    /\ lpc = "l212"
    /\ released' = released \cup {"rclpy"}
    /\ ok' = FALSE
    /\ lpc' = "stopped"
    /\ UNCHANGED <<coreVars, update_cb, todo, hz_dict, inflight, logged, iter_stats>>

_rostopic_hz ==
    \/ loop_while
    \/ loop_spin_once
    \/ loop_get_hz
    \/ loop_collect
    \/ loop_export
    \/ loop_export_return
    \/ loop_destroy_node
    \/ loop_shutdown

\* the process-level shutdown signal: rclpy.ok() is false from now on
stop_signal ==
    /\ ok
    /\ lpc # "stopped"
    /\ ok' = FALSE
    /\ UNCHANGED <<coreVars, update_cb, lpc, todo, hz_dict, inflight, logged, released,
                   iter_stats>>

\* an export task writes its batch to the sink and ends; a failed write is
\* logged (sections 5 and 7 of the specification)
export_done(batch, outcome) ==
    /\ batch \in inflight
    /\ inflight' = inflight \ {batch}
    /\ logged' = IF outcome = "failure" THEN logged \cup {batch} ELSE logged
    /\ UNCHANGED <<coreVars, update_cb, lpc, ok, todo, hz_dict, released, iter_stats>>

NextLoop ==
    \/ \E w \in workers : callback_hz(w) /\ UNCHANGED loopVars
    \/ \E p \in pollers : get_hz_body(p) /\ UNCHANGED loopVars
    \/ _rostopic_hz
    \/ stop_signal
    \/ \E batch \in inflight, outcome \in {"success", "failure"} : export_done(batch, outcome)

Spec == Init /\ [][Next]_vars

SpecLoop == InitLoop /\ [][NextLoop]_vars

\* every thread that can run does run: the thread of the loop (also inside
\* get_hz), a delivering thread inside its with block, and an export task
Fairness ==
    /\ WF_vars(_rostopic_hz)
    /\ WF_vars(get_hz_body(LoopThread) /\ UNCHANGED loopVars)
    /\ \A w \in Workers :
          WF_vars((callback_hz_record(w) \/ callback_hz_finish(w)) /\ UNCHANGED loopVars)
    /\ WF_vars(\E batch \in inflight : export_done(batch, "success"))

SpecStop == InitStop /\ [][NextLoop]_vars /\ Fairness

SpecOne == InitOne /\ [][Next]_vars

SpecWin == InitWin /\ [][Next]_vars

SpecStats == InitStats /\ [][Next]_vars

\* ======================= properties =====================================

\* the bookkeeping of a topic that callback_hz maintains
Window(t) == [times |-> _times[t], t0 |-> _msg_t0[t], tn |-> _msg_tn[t]]

\* no callback for topic t is between its clock reading and its return
Settled(t) == \A w \in Workers : wtopic[w] = t => lock # w

\* the ingest operation as section 4.1 of the specification states it
Ingest(st, t, ws) ==
    IF t = 0 THEN [st EXCEPT !.times = <<>>]
    ELSE IF st.t0 < 0 \/ st.t0 > t THEN [times |-> <<>>, t0 |-> t, tn |-> t]
    ELSE LET all == Append(st.times, t - st.tn)
         IN  [times |-> IF Len(all) > ws THEN SubSeq(all, 2, Len(all)) ELSE all,
              t0 |-> st.t0, tn |-> t]

RECURSIVE Replay(_, _)
Replay(h, ws) ==
    IF h = <<>> THEN [times |-> <<>>, t0 |-> -1, tn |-> 0]
    ELSE Ingest(Replay(SubSeq(h, 1, Len(h) - 1), ws), h[Len(h)], ws)

StrictlyIncreasing(h) == \A i \in 1..(Len(h) - 1) : h[i] < h[i + 1]

\* the last k differences of consecutive elements of h
LastDeltas(h, k) == [i \in 1..k |-> h[Len(h) - k + i] - h[Len(h) - k + i - 1]]

\* C1: whenever no callback_hz is inside its locked block, every topic
\* retains at most window_size intervals.  (Between the append of line 137
\* and the eviction of lines 140-141 the list holds one more, under the lock.)
C1_WindowBounded ==
    \A t \in Topics : Settled(t) => Len(_times[t]) <= window_size

\* C1 witness: a topic whose full window has already evicted an interval
C1_Evicted ==
    \E t \in Topics :
        /\ Settled(t)
        /\ StrictlyIncreasing(ingested[t])
        /\ Len(ingested[t]) >= window_size + 2
        /\ ingested[t][1] > 0
        /\ Len(_times[t]) = window_size

\* C10: whenever no callback_hz for a topic is inside its locked block, the
\* topic's intervals, first and last timestamp are those that ingesting its
\* own clock readings one after another gives, whatever get_hz calls and
\* callbacks for other topics ran in between.
C10_OwnIngestsOnly ==
    \A t \in Topics : Settled(t) => Window(t) = Replay(ingested[t], window_size)

\* C10 witness: a topic holds an interval while the other topic has taken
\* messages and get_hz has armed a throttle
C10_Interleaved ==
    \E t, u \in Topics :
        /\ t # u
        /\ Settled(t)
        /\ Len(_times[t]) >= 1
        /\ Len(ingested[u]) >= 1
        /\ \E x \in Topics : _last_printed_tn[x] # 0

\* C2 (as claimed): after a run of strictly increasing clock readings into a
\* fresh topic, at least window_size + 1 of them, the topic holds exactly the
\* last window_size differences of consecutive readings, in order.
C2_Original ==
    \A t \in Topics :
        (Settled(t) /\ StrictlyIncreasing(ingested[t])
                    /\ Len(ingested[t]) >= window_size + 1)
        => _times[t] = LastDeltas(ingested[t], window_size)

\* C2 (amended): the same, for readings that are all non-zero.
C2_MostRecentDeltas ==
    \A t \in Topics :
        (Settled(t) /\ StrictlyIncreasing(ingested[t])
                    /\ Len(ingested[t]) >= window_size + 1
                    /\ ingested[t][1] > 0)
        => _times[t] = LastDeltas(ingested[t], window_size)

\* C2 witness: non-zero increasing readings, enough of them for an eviction
C2_EvictedOldest ==
    \E t \in Topics :
        /\ Settled(t)
        /\ StrictlyIncreasing(ingested[t])
        /\ Len(ingested[t]) >= window_size + 2
        /\ ingested[t][1] > 0

\* a callback_hz call of worker w returns from its recording branch
Returns(w) == wpc[w] \in {"l135", "l138"} /\ wpc'[w] = "idle"

\* the topic of worker w restarted at the reading of w
Restarted(w) ==
    /\ _times'[wtopic[w]] = <<>>
    /\ _msg_t0'[wtopic[w]] = curr[w]
    /\ _msg_tn'[wtopic[w]] = curr[w]

\* C3 (as claimed): a callback whose non-zero reading is at or before the
\* first timestamp of a topic that already had a sample leaves the topic
\* with no intervals and first = last = the reading.
C3_Original ==
    [][\A w \in Workers :
         (Returns(w) /\ msg_t0[w] >= 0 /\ curr[w] <= msg_t0[w]) => Restarted(w)]_vars

\* C3 (amended): the same, for a reading strictly before the first timestamp.
C3_BackwardJumpRestarts ==
    [][\A w \in Workers :
         (Returns(w) /\ msg_t0[w] >= 0 /\ curr[w] < msg_t0[w]) => Restarted(w)]_vars

\* C3 witness: a callback is resetting a topic that had a sample and intervals
C3_BackwardJump ==
    \E w \in Workers :
        /\ wpc[w] = "l135"
        /\ msg_t0[w] >= 0
        /\ curr[w] < msg_t0[w]
        /\ _msg_tn[wtopic[w]] = curr[w]
        /\ Len(_times[wtopic[w]]) >= 1

\* C4 (as claimed): a step lowers a topic's last timestamp only as part of a
\* reset (the branch of lines 133-135); an initialized topic has
\* first <= last, and every retained interval is >= 0.
C4_Original ==
    /\ [][\A t \in Topics :
            _msg_tn'[t] < _msg_tn[t]
            => \E w \in Workers : wtopic[w] = t /\ wpc'[w] = "l135"]_vars
    /\ [](\A t \in Topics :
            /\ _msg_t0[t] >= 0 => _msg_t0[t] <= _msg_tn[t]
            /\ \A i \in 1..Len(_times[t]) : _times[t][i] >= 0)

\* C5: a get_hz call on a topic whose window is empty returns None at once
\* and leaves the bookkeeping of every topic as it was.
C5_EmptySnapshot ==
    [][\A p \in Pollers, t \in Topics :
         (get_hz_times(p, t) /\ _times[t] = <<>>)
         => /\ ret'[p] = None
            /\ ppc'[p] = "idle"
            /\ UNCHANGED chanVars]_vars

\* C5 witness: get_hz has returned None for a topic that had a message, and
\* no call has yet found a window non-empty
C5_ReturnedNothing ==
    \E p \in Pollers, t \in Topics :
        /\ ret[p] = None
        /\ ppc[p] = "idle"
        /\ polls_left = MaxPolls
        /\ _msg_t0[t] >= 0
        /\ _times[t] = <<>>

\* C6 (as claimed): the first get_hz call that finds a topic's window
\* non-empty after a reset takes the priming branch (lines 148-150): it never
\* reaches the throttle test or the computation.
C6_Original ==
    \A p \in Pollers : first[p] => ppc[p] \in {"idle", "l148", "l149", "l149w"}

\* C7 (as claimed): a get_hz call that returns statistics for a topic finds
\* the topic's last timestamp at least 1e9 ns after the one of the topic's
\* previous report.
C7_Original ==
    [][\A p \in Pollers :
         (ppc[p] = "l155" /\ ppc'[p] = "idle" /\ last_report[ptopic[p]] >= 0)
         => _msg_tn[ptopic[p]] - last_report[ptopic[p]] >= ThrottleNs]_vars

\* the statistics section 4.4 asks for, over the intervals ts
IsStatsOf(r, ts) ==
    /\ r.kind = "stats"
    /\ r.n = Len(ts)
    /\ \E i \in 1..Len(ts) : r.min_delta = ts[i]
    /\ \A i \in 1..Len(ts) : r.min_delta <= ts[i]
    /\ \E i \in 1..Len(ts) : r.max_delta = ts[i]
    /\ \A i \in 1..Len(ts) : r.max_delta >= ts[i]
    /\ r.rate = IF Sum(ts) > 0 THEN <<Len(ts), Sum(ts)>> ELSE <<0, 1>>

\* C8: step by step, a get_hz call on a non-empty window goes on to the test
\* of the throttle; on an armed topic it goes on to the throttle test, which
\* reads the last timestamp; with 1e9 ns or more since the last report it
\* goes on to the computation, which over a non-empty window returns count,
\* min, max and rate = count / sum (0 if the sum is not positive) of all
\* retained intervals and sets last_reported = last timestamp.  Intervals
\* [100, 100, 100, 100] give rate 1/100, min 100, max 100, std_dev 0,
\* count 4.
C8_Snapshot ==
    [][\A p \in Pollers :
         LET t == ptopic[p] IN
         /\ \A u \in Topics :
               (get_hz_times(p, u) /\ Len(_times[u]) >= 1)
               => (ppc'[p] = "l148" /\ ptopic'[p] = u)
         /\ ppc'[p] # ppc[p] =>
           /\ (ppc[p] = "l148" /\ _last_printed_tn[t] # 0) => ppc'[p] = "l152"
           /\ ppc[p] = "l152" => (arg'[p] = _msg_tn[t] /\ ppc'[p] = "l152c")
           /\ (ppc[p] = "l152c" /\ arg[p] - _last_printed_tn[t] >= ThrottleNs)
              => ppc'[p] = "l155"
           /\ (ppc[p] = "l155" /\ Len(_times[t]) >= 1)
              => /\ IsStatsOf(ret'[p], _times[t])
                 /\ _last_printed_tn'[t] = _msg_tn[t]
                 /\ ppc'[p] = "idle"
           /\ (ppc[p] = "l155" /\ _times[t] = <<100, 100, 100, 100>>)
              => ret'[p] = [kind |-> "stats", rate |-> <<4, 400>>, min_delta |-> 100,
                            max_delta |-> 100, std_dev |-> 0, n |-> 4]]_vars

\* C8 witness: statistics of [100, 100, 100, 100] have been returned
C8_Reported ==
    \E p \in Pollers :
        /\ ret[p].kind = "stats"
        /\ ret[p].n = 4
        /\ ret[p].min_delta = 100
        /\ ret[p].max_delta = 100
        /\ ret[p].std_dev = 0
        /\ _last_printed_tn[DefaultTopic] = _msg_tn[DefaultTopic]
        /\ _times[DefaultTopic] = <<100, 100, 100, 100>>

\* C9 (as claimed): no callback_hz and no get_hz call ends in an exception.
C9_Original ==
    /\ \A w \in Workers : wpc[w] # "raised"
    /\ \A p \in Pollers : ppc[p] # "raised"

\* C11: a callback whose message the filter rejects goes to the return of
\* line 118 and returns; neither step changes the intervals, the first, last
\* or last reported timestamp of any topic, and no window is reset.
C11_FilterRejectFrame ==
    [][\A w \in Workers :
         /\ \A t \in Topics :
              (filter_expr /\ callback_hz_filter(w, t, "reject"))
              => (wpc'[w] = "l118" /\ UNCHANGED <<chanVars, fresh>>)
         /\ (wpc[w] = "l118" /\ wpc'[w] # "l118")
            => (wpc'[w] = "idle" /\ UNCHANGED <<chanVars, fresh>>)]_vars

\* C11 witness: a message is being rejected for a topic that holds an
\* interval and an armed throttle
C11_Rejected ==
    \E w \in Workers :
        /\ wpc[w] = "l118"
        /\ Len(_times[wtopic[w]]) >= 1
        /\ _last_printed_tn[wtopic[w]] # 0

\* C12 (as claimed): the evaluation of the filter ends a callback as a
\* rejection (line 118) or lets it go on to the lock (line 120); it never
\* ends it with an exception.
C12_Original ==
    [][\A w \in Workers :
         (wpc[w] = "idle" /\ wpc'[w] # "idle") => wpc'[w] \in {"l118", "l120"}]_vars

\* C15: a callback that read the clock as 0 returns leaving the topic with
\* no intervals and with the first, last and last reported timestamp it had.
C15_ZeroIngest ==
    [][\A w \in Workers :
         LET t == wtopic[w] IN
         (wpc[w] = "l123" /\ curr[w] = 0 /\ wpc'[w] # "l123")
         => /\ wpc'[w] = "idle"
            /\ _times'[t] = <<>>
            /\ _msg_t0'[t] = _msg_t0[t]
            /\ _msg_tn'[t] = _msg_tn[t]
            /\ _last_printed_tn'[t] = _last_printed_tn[t]]_vars

\* C15 witness: the latest callback of a topic read 0 and has returned; the
\* topic had intervals, keeps distinct first and last timestamps and an
\* armed throttle
C15_ClearedByZero ==
    \E t \in Topics :
        /\ Settled(t)
        /\ Len(ingested[t]) >= 3
        /\ ingested[t][Len(ingested[t])] = 0
        /\ _times[t] = <<>>
        /\ _msg_t0[t] >= 0
        /\ _msg_tn[t] > _msg_t0[t]
        /\ _last_printed_tn[t] # 0

\* C16 (as claimed): a step that changes the intervals or a timestamp of a
\* topic is taken by a thread that holds the lock: a callback inside its
\* with block, or the locked block of get_hz (lines 155-164).
C16_Original ==
    [][chanVars' # chanVars
       => \/ lock \in Workers
          \/ \E p \in Pollers : ppc[p] = "l155" /\ ppc'[p] # "l155"]_vars

\* C20 (as claimed): the last reported timestamp of a topic is never after
\* its last timestamp.
C20_Original ==
    \A t \in Topics : _last_printed_tn[t] <= _msg_tn[t]

\* the topics a batch has a value for
Keys(d) == {kv[1] : kv \in d}

C14_NeverWaits ==
    /\ lpc = "l209" => ENABLED loop_export_return
    /\ lpc \in {"l201", "l202", "l208"} => ENABLED _rostopic_hz

\* C14 witness: the loop is at spin_once of the next iteration while the
\* export of the statistics it has just handed over is still in progress
C14_ExportInProgress ==
    /\ lpc = "l202"
    /\ hz_dict # EmptyBatch
    /\ hz_dict \in inflight

\* lines 120-121 of the callback of w: the lock is taken, the clock is read
ClockCall(w) == wpc[w] = "l120" /\ wpc'[w] = "l123"

C18_Original ==
    [][(lpc = "l208" /\ lpc' # "l208")
       => /\ todo = <<>>
          /\ Keys(hz_dict) = iter_stats
          /\ lpc' = "l209" => hz_dict # EmptyBatch]_vars

\* the loop has left _rostopic_hz through lines 211-212
Stopped == lpc = "stopped" /\ released = {"node", "rclpy"}

\* C19 (as claimed): once the stop signal is raised the loop reaches STOPPED
\* with the node destroyed and rclpy shut down; the while test of line 201
\* starts no iteration after the signal, and nothing starts after STOPPED.
C19_Original ==
    /\ (~ok) ~> Stopped
    /\ [][/\ (~ok /\ lpc = "l201") => lpc' \in {"l201", "l211"}
          /\ lpc = "stopped"
             => (lpc' = "stopped" /\ UNCHANGED ppc /\ inflight' \subseteq inflight)]_vars
====
